---- MODULE Spec2Model ----
(***************************************************************************)
(* The cooldown tracker of the bot (src/src/util/cooldown.rs) and the      *)
(* background task that sweeps it (src/src/main.rs).                       *)
(*                                                                         *)
(* Time is a monotonic clock counted in ticks, TicksPerSec ticks to the    *)
(* second, so that Duration::as_secs (which drops the fraction) is not the *)
(* identity.  An Instant is the tick at which it was taken.                *)
(***************************************************************************)
EXTENDS Integers, FiniteSets, TLC

VARIABLES
    now,        \* the monotonic clock (Instant::now()), in ticks
    cooldowns,  \* CooldownManager.cooldowns: command -> (user_id -> Instant)
    lock,       \* holder of the RwLock's write guard, or NoTask
    pc,         \* per handler task: position inside check_cooldown
    args,       \* per handler task in flight: (command, user_id, cooldown_seconds)
    ret,        \* the call that returned last: its arguments and its Result
    swept,      \* max_age_seconds of the cleanup_expired run that was the last step
    shadow,     \* per key, the Instant of its last successful call, never swept
    calls,      \* number of check_cooldown invocations made so far
    sweeper,    \* the task spawned in main: "running", or "panicked"
    caches,     \* CVE_CACHE, JEP_CACHE, INSTRUCTION_CACHE: key -> (data, cached_at)
    upstream,   \* the version of the data the external sources serve now
    req,        \* per handler task in flight: what it looks up and what it holds
    hret,       \* the lookup handler that returned last, and its Result
    lookups,    \* number of lookup handler invocations made so far
    guards      \* per cache, who holds its RwLock: the writer and the readers

lookupVars == <<caches, upstream, req, hret, lookups, guards>>

vars == <<now, cooldowns, lock, pc, args, ret, swept, shadow, calls, sweeper,
          lookupVars>>

(***************************** bounds **************************************)
TicksPerSec == 2    \* clock resolution of the model
Near == 2           \* ticks observed after each epoch
MaxCalls == 3       \* check_cooldown invocations per behaviour
MaxTimedCalls == 2  \* check_cooldown invocations per behaviour of the timed bot
MaxTicks == 14      \* ticks of the sweep interval the timed bot runs for
MaxInvokes == 2     \* command invocations per behaviour of the whole bot
MaxLookups == 2     \* lookup handler invocations per behaviour
MaxVersions == 2    \* versions of the data the external sources go through

(************************* program constants *******************************)
Retention == 3600   \* cleanup_manager.cleanup_expired(3600)

Commands == {"hash", "uuid"}
Users == {1, 2}
\* The (command, user_id) pairs the handlers are invoked with: one user on two
\* commands, and two users on one command.
Invocations == {<<"hash", 1>>, <<"hash", 2>>, <<"uuid", 1>>}
Tasks == {1, 2}
NoTask == 0

\* Duration::from_secs and Duration::as_secs, on ticks.
from_secs(secs) == secs * TicksPerSec
as_secs(d) == d \div TicksPerSec

\* The instants at which the model looks at the clock: just after start-up
\* and around one retention horizon later.
Epochs == {0, from_secs(Retention)}
Instants == {e + d : e \in Epochs, d \in 0..Near}

\* cooldown_seconds values passed by the handlers (any u64 of config.toml).
Windows == {0, 2, Retention, Retention + 1}
\* max_age_seconds values passed to cleanup_expired by a direct caller.
MaxAges == {1, Retention}

\* tokio::time::interval(Duration::from_secs(300)) of the cleanup task
Interval == 300
\* The instants at which the interval ticks: the first tick completes at
\* once, the later ones a whole period apart.
TickInstants == {k * from_secs(Interval) : k \in 0..MaxTicks}
\* The instants at which the timed bot looks at the clock: at every tick and
\* just after it.
TimedInstants == {e + d : e \in TickInstants, d \in 0..1}
\* cooldown_seconds values of the timed bot: no cooldown, and one that
\* outlasts the retention horizon.
TimedWindows == {0, Retention + 1}
is_tick(t) == t % from_secs(Interval) = 0
\* A timer that lets every other tick go by.
next_tick_skipping(t) == ((t \div from_secs(Interval)) + 2) * from_secs(Interval)
\* The deadline of the next interval.tick() after t
next_tick(t) == ((t \div from_secs(Interval)) + 1) * from_secs(Interval)

\* const CACHE_DURATION: Duration = Duration::from_secs(3600), the same in
\* cve.rs, jep.rs and opcode.rs
CACHE_DURATION == 3600

\* CVE_CACHE, JEP_CACHE and INSTRUCTION_CACHE
CacheNames == {"cve", "jep", "opcode"}
\* The routines that go to the network: fetch_cve_info, fetch_jep_info,
\* get_user_info and get_repository_info.
Remote == {"cve", "jep", "github_user", "github_repo"}
\* What the lookup handlers are invoked with: two ids of one cache, one id of
\* another, the instruction table (a single slot) and the two GitHub lookups.
Lookups == {<<"cve", "CVE-1">>, <<"cve", "CVE-2">>, <<"jep", "JEP-1">>,
            <<"opcode", "all">>, <<"github_user", "octocat">>,
            <<"github_repo", "octocat/hello">>}

\* commands: vec![help(), base64(), ..] of main
Registered == {"help", "base64", "url", "rot", "endian", "timestamp", "hash",
               "checksum", "uuid", "github", "color", "hawktuah", "jep",
               "opcode", "cve"}
\* The handlers whose body calls util::command::check_cooldown, each with
\* its own name: help, base64 and color do not.
Cooled == Registered \ {"help", "base64", "color"}
\* The handlers whose body calls validate_input_size
Validating == {"base64", "url", "rot", "hash", "checksum"}
\* The command a lookup source belongs to
command_of(source) ==
    IF source \in {"github_user", "github_repo"} THEN "github" ELSE source
\* The cooldown each handler passes: hash_cooldown, github_cooldown or
\* per_user_cooldown, with the defaults of Config::default (5, 10, 3).
cooldown_of(command) ==
    IF command \in {"hash", "checksum"} THEN 5
    ELSE IF command \in {"github", "jep", "cve"} THEN 10
    ELSE 3
\* The one user the whole bot is driven by, and what a command is invoked
\* with: an input of any size, and for cve an id of any shape.
BotUsers == {1}
Inputs(command) ==
    {"ok"} \cup (IF command \in Validating THEN {"too_large"} ELSE {})
           \cup (IF command = "cve" THEN {"invalid"} ELSE {})
\* What a command looks up: the source and the key.
Targets(command) ==
    CASE command = "cve" -> {<<"cve", "CVE-1">>}
      [] command = "jep" -> {<<"jep", "JEP-1">>}
      [] command = "opcode" -> {<<"opcode", "all">>}
      [] command = "github" -> {<<"github_user", "octocat">>}
      [] OTHER -> {<<"", "">>}

\* .timeout(Duration::from_secs(30)) on the client of fetch_cve_info and of
\* fetch_jep_info; reqwest::Client::new() in github.rs sets none.
NoTimeout == -1
client_timeout(source) ==
    IF source \in {"cve", "jep"} THEN 30 ELSE NoTimeout

\* How a fetch can end, per routine: the answer, send() failing, a status
\* that is not a success, the body not parsing, an empty vulnerabilities list.
Outcomes(source) ==
    CASE source = "cve" -> {"ok", "network", "status", "parse", "empty"}
      [] source = "jep" -> {"ok", "network", "status"}
      [] source = "opcode" -> {"ok", "parse"}
      [] OTHER -> {"ok", "network", "status", "parse"}

\* The title "User not found" / "Repository not found" handed back as a value.
NotFound == 0
\* include_str! of the instruction table, fixed at build time.
JSON_DATA == 1

(*************************** HashMap helpers *******************************)
EmptyMap == [k \in {} |-> 0]

\* HashMap::insert
MapInsert(m, k, v) == [x \in (DOMAIN m) \cup {k} |-> IF x = k THEN v ELSE m[x]]

\* HashMap::retain with the kept keys given as a set
MapRetain(m, keep) == [x \in (DOMAIN m) \cap keep |-> m[x]]

\* cooldowns.entry(command.to_string()).or_insert_with(HashMap::new)
entry_or_insert(store, command) ==
    IF command \in DOMAIN store THEN store ELSE MapInsert(store, command, EmptyMap)

\* command_cooldowns.get(&user_id) is Some
has_entry(store, command, user_id) ==
    /\ command \in DOMAIN store
    /\ user_id \in DOMAIN store[command]

\* last_used.elapsed(): the clock is monotonic, a negative difference saturates
elapsed(last_used, t) == IF t >= last_used THEN t - last_used ELSE 0

\* A comparison against the window taken in the clock's unit, not in seconds.
is_throttled_unit_slip(store, command, user_id, cooldown_seconds, t) ==
    /\ has_entry(store, command, user_id)
    /\ elapsed(store[command][user_id], t) < cooldown_seconds

\* A comparison that also throttles when exactly the window has elapsed.
is_throttled_inclusive(store, command, user_id, cooldown_seconds, t) ==
    /\ has_entry(store, command, user_id)
    /\ elapsed(store[command][user_id], t) <= from_secs(cooldown_seconds)

\* if elapsed < cooldown_duration
is_throttled(store, command, user_id, cooldown_seconds, t) ==
    /\ has_entry(store, command, user_id)
    /\ elapsed(store[command][user_id], t) < from_secs(cooldown_seconds)

\* The window less the whole seconds elapsed.
remaining_secs_whole_elapsed(last_used, cooldown_seconds, t) ==
    cooldown_seconds - as_secs(elapsed(last_used, t))

\* remaining = cooldown_duration - elapsed; Err(BotError::Cooldown(remaining.as_secs()))
remaining_secs(last_used, cooldown_seconds, t) ==
    as_secs(from_secs(cooldown_seconds) - elapsed(last_used, t))

\* An insert that stamps every user of the command.
record_use_whole_command(store, command, user_id, t) ==
    LET s == entry_or_insert(store, command)
    IN  [s EXCEPT ![command] = [x \in (DOMAIN s[command]) \cup {user_id} |-> t]]

\* A pass that leaves the user's timestamp as it was.
record_use_forgotten(store, command, user_id, t) ==
    entry_or_insert(store, command)

\* command_cooldowns.insert(user_id, Instant::now())
record_use(store, command, user_id, t) ==
    LET s == entry_or_insert(store, command)
    IN  [s EXCEPT ![command] = MapInsert(s[command], user_id, t)]

\* An early return that stamps the attempt.
on_throttled_restamp(store, command, user_id, t) ==
    [store EXCEPT ![command] = MapInsert(store[command], user_id, t)]

\* return Err(..): the store as the early return leaves it, nothing inserted
on_throttled(store, command, user_id, t) == store

\* A retain that keeps the old entries and drops the recent ones.
is_fresh_inverted(last_used, cutoff) == last_used < cutoff

\* An Instant that counts unsigned from the start of the process: nothing
\* earlier than the start can be represented.
instant_sub_panics_before_start(t, d) == t - d < 0

\* Instant::now() - Duration (line 44) panics when the difference is not
\* representable.  The seconds of the platform's monotonic clock are signed
\* 64-bit, so every difference of a clock reading and a u64 of seconds that
\* the model forms is representable.
instant_sub_panics(t, d) == FALSE

\* last_used > cutoff
is_fresh(last_used, cutoff) == last_used > cutoff

\* A cutoff taken max_age_seconds clock units back, not seconds.
cleanup_expired_unit_slip(store, max_age_seconds, t) ==
    LET cutoff == t - max_age_seconds
        kept == [c \in DOMAIN store |->
                    MapRetain(store[c],
                              {u \in DOMAIN store[c] : is_fresh(store[c][u], cutoff)})]
    IN  MapRetain(kept, {c \in DOMAIN kept : DOMAIN kept[c] # {}})

\* CooldownManager::cleanup_expired, the body under the write guard
cleanup_expired(store, max_age_seconds, t) ==
    LET cutoff == t - from_secs(max_age_seconds)
        kept == [c \in DOMAIN store |->
                    MapRetain(store[c],
                              {u \in DOMAIN store[c] : is_fresh(store[c][u], cutoff)})]
    IN  MapRetain(kept, {c \in DOMAIN kept : DOMAIN kept[c] # {}})

(***************************** lookup caches *******************************)
\* An entry that is still served at the very end of CACHE_DURATION.
is_valid_inclusive(cached_at, t) == elapsed(cached_at, t) <= from_secs(CACHE_DURATION)

\* cached.cached_at.elapsed() < CACHE_DURATION
is_valid(cached_at, t) == elapsed(cached_at, t) < from_secs(CACHE_DURATION)

\* A lookup with the comparison turned round: only an expired entry is found.
get_cached_expired_only(cache, key, t) ==
    IF key \in DOMAIN cache /\ ~is_valid(cache[key].cached_at, t)
    THEN {cache[key].data}
    ELSE {}

\* get_cached_cve, get_cached_jep and the read half of
\* get_cached_instructions: Some(clone of the data) or None, as a set.
get_cached(cache, key, t) ==
    IF key \in DOMAIN cache /\ is_valid(cache[key].cached_at, t)
    THEN {cache[key].data}
    ELSE {}

\* A read that takes an expired entry of its key out of the cache.
after_read_evicting(cache, key, t) ==
    IF key \in DOMAIN cache /\ ~is_valid(cache[key].cached_at, t)
    THEN MapRetain(cache, DOMAIN cache \ {key})
    ELSE cache

\* What get_cached_* leaves in the cache: it holds a read guard and only
\* looks.
after_read(cache, key, t) == cache

\* CACHE.read().await is granted while no writer holds the lock, and
\* CACHE.write().await while nobody holds it.
can_read(g) == g.writer = NoTask
can_write(g) == g.writer = NoTask /\ g.readers = {}

\* A read guard that outlives the function that took it.
release_on_return_kept(g, t) == g
\* get_cached_cve, get_cached_jep and the hit of get_cached_instructions
\* return: the read guard goes out of scope.
release_on_return(g, t) == [g EXCEPT !.readers = @ \ {t}]

\* get_cached_instructions going on to load and write with its read guard.
drop_before_load_missing(g, t) == g
\* drop(cache) before load_instructions (opcode.rs line 122)
drop_before_load(g, t) == [g EXCEPT !.readers = @ \ {t}]

\* An insert with no sweep after it.
cache_insert_no_sweep(cache, key, data, t) ==
    MapInsert(cache, key, [data |-> data, cached_at |-> t])

\* An insert that drops every other entry, valid or not.
cache_insert_alone(cache, key, data, t) ==
    MapInsert(EmptyMap, key, [data |-> data, cached_at |-> t])

\* cache_cve and cache_jep: insert with Instant::now(), then retain the
\* entries that are still valid.
cache_insert(cache, key, data, t) ==
    LET inserted == MapInsert(cache, key, [data |-> data, cached_at |-> t])
    IN  MapRetain(inserted,
                  {k \in DOMAIN inserted : is_valid(inserted[k].cached_at, t)})

\* *cache = Some(CachedInstructions { .. }): the one slot is overwritten.
store_instructions(cache, key, data, t) ==
    MapInsert(EmptyMap, key, [data |-> data, cached_at |-> t])

\* A store that leaves an entry of the key that is still valid in place.
cache_put_keep_valid(source, cache, key, data, t) ==
    IF key \in DOMAIN cache /\ is_valid(cache[key].cached_at, t)
    THEN cache
    ELSE cache_insert(cache, key, data, t)

\* A store stamped with the start of the process, not with the clock.
cache_put_unstamped(source, cache, key, data, t) ==
    IF source = "opcode"
    THEN store_instructions(cache, key, data, 0)
    ELSE cache_insert(cache, key, data, 0)

cache_put(source, cache, key, data, t) ==
    IF source = "opcode"
    THEN store_instructions(cache, key, data, t)
    ELSE cache_insert(cache, key, data, t)

\* Every routine taking a status that is not a success for an answer.
fetch_result_lenient(source, outcome, version) ==
    IF outcome = "ok" THEN [ok |-> TRUE, value |-> version]
    ELSE IF outcome = "status" THEN [ok |-> TRUE, value |-> NotFound]
    ELSE [ok |-> FALSE, value |-> NotFound]

\* The Result of the fetch routine.  fetch_cve_info and fetch_jep_info give
\* Err on everything but the answer; get_user_info and get_repository_info
\* give Ok(("User not found", ..)) on a status that is not a success.
fetch_result(source, outcome, version) ==
    IF outcome = "ok" THEN [ok |-> TRUE, value |-> version]
    ELSE IF source \in {"github_user", "github_repo"} /\ outcome = "status"
         THEN [ok |-> TRUE, value |-> NotFound]
    ELSE [ok |-> FALSE, value |-> NotFound]

(****************************** state **************************************)
NoArgs == [command |-> "", user_id |-> 0, cooldown_seconds |-> 0]
NoReturn == [command |-> "", user_id |-> 0, cooldown_seconds |-> 0,
             status |-> "none", secs |-> 0]
NotSwept == -1

\* Ok(()) and Err(BotError::Cooldown(secs)) as handed back to the caller
Returned(a, status, secs) ==
    [command |-> a.command, user_id |-> a.user_id,
     cooldown_seconds |-> a.cooldown_seconds, status |-> status, secs |-> secs]

NoReq == [command |-> "", user |-> 0, input |-> "ok", cooled |-> FALSE,
          source |-> "", key |-> "", value |-> 0, outcome |-> "none", fetches |-> 0]
NoResponse == [command |-> "", user |-> 0, cooled |-> FALSE,
               source |-> "", key |-> "", status |-> "none", value |-> 0,
               outcome |-> "none", fetches |-> 0, displaced |-> {}]
\* RwLock::new: no guard is out
NoGuards == [writer |-> NoTask, readers |-> {}]

\* The handler's Result: Ok after ctx.send of the value, or the Err that
\* the ? operator hands to on_error
Responded(r, status, value, outcome) ==
    [command |-> r.command, user |-> r.user, cooled |-> r.cooled,
     source |-> r.source, key |-> r.key, status |-> status, value |-> value,
     outcome |-> outcome, fetches |-> r.fetches, displaced |-> {}]

\* The entries a store took out of its cache, by retain or by writing over
\* them: kept with the Result of the handler that stored, for the properties.
Displaced(old, new) ==
    {[key |-> k, cached_at |-> old[k].cached_at] :
        k \in {x \in DOMAIN old : x \notin DOMAIN new \/ new[x] # old[x]}}

\* CooldownManager::new and the tasks before their first invocation
Init ==
    /\ now = 0
    /\ cooldowns = EmptyMap
    /\ shadow = EmptyMap
    /\ lock = NoTask
    /\ pc = [t \in Tasks |-> "idle"]
    /\ args = [t \in Tasks |-> NoArgs]
    /\ ret = NoReturn
    /\ swept = NotSwept
    /\ calls = 0
    /\ sweeper = "running"
    /\ caches = [c \in CacheNames |-> EmptyMap]
    /\ upstream = 1
    /\ req = [t \in Tasks |-> NoReq]
    /\ hret = NoResponse
    /\ lookups = 0
    /\ guards = [c \in CacheNames |-> NoGuards]

(***************************** actions *************************************)
\* The clock moves on to a later instant.
Advance ==
    /\ \E t \in Instants : t > now /\ now' = t
    /\ swept' = NotSwept
    /\ UNCHANGED <<cooldowns, lock, pc, args, ret, shadow, calls, sweeper, lookupVars>>

\* A guard that is handed out while another one is out.
lock_free_shared == TRUE

\* self.cooldowns.write().await is granted only when no guard is out
lock_free == lock = NoTask

\* util::command::check_cooldown calls the manager, and
\* let mut cooldowns = self.cooldowns.write().await; is granted.
Call(t, command, user_id, cooldown_seconds) ==
    /\ pc[t] = "idle"
    /\ calls < MaxCalls
    /\ lock_free
    /\ calls' = calls + 1
    /\ lock' = t
    /\ pc' = [pc EXCEPT ![t] = "locked"]
    /\ args' = [args EXCEPT ![t] = [command |-> command, user_id |-> user_id,
                                    cooldown_seconds |-> cooldown_seconds]]
    /\ swept' = NotSwept
    /\ UNCHANGED <<now, cooldowns, ret, shadow, sweeper, lookupVars>>

\* A handler that goes on whatever check_cooldown returned.
after_check_cooldown_unchecked(status) == "cooled"
\* check_cooldown(..).await? in a handler: Err leaves, Ok goes on.
after_check_cooldown(status) ==
    IF status = "Ok" THEN "cooled" ELSE "throttled"
\* Where check_cooldown returns to: a caller of the manager alone, or the
\* command handler that is in flight on the task.
returns_to(r, status) ==
    IF r = NoReq THEN "idle" ELSE after_check_cooldown(status)

\* Lines 26-36: entry().or_insert_with, get, elapsed(), the comparison and
\* the early return, which drops the guard.
Check(t) ==
    LET a == args[t]
        c == a.command
        u == a.user_id
        w == a.cooldown_seconds
        store == entry_or_insert(cooldowns, c)
    IN  /\ pc[t] = "locked"
        /\ IF is_throttled(store, c, u, w, now)
           THEN /\ cooldowns' = on_throttled(store, c, u, now)
                /\ ret' = Returned(a, "Cooldown", remaining_secs(store[c][u], w, now))
                /\ lock' = NoTask
                /\ pc' = [pc EXCEPT ![t] = returns_to(req[t], "Cooldown")]
                /\ args' = [args EXCEPT ![t] = NoArgs]
           ELSE /\ cooldowns' = store
                /\ pc' = [pc EXCEPT ![t] = "passed"]
                /\ UNCHANGED <<lock, args, ret>>
        /\ swept' = NotSwept
        /\ UNCHANGED <<now, shadow, calls, sweeper, lookupVars>>

\* Lines 38-39: insert(user_id, Instant::now()); Ok(()) drops the guard.
Record(t) ==
    LET a == args[t]
    IN  /\ pc[t] = "passed"
        /\ cooldowns' = record_use(cooldowns, a.command, a.user_id, now)
        /\ shadow' = record_use(shadow, a.command, a.user_id, now)
        /\ ret' = Returned(a, "Ok", 0)
        /\ lock' = NoTask
        /\ pc' = [pc EXCEPT ![t] = returns_to(req[t], "Ok")]
        /\ args' = [args EXCEPT ![t] = NoArgs]
        /\ swept' = NotSwept
        /\ UNCHANGED <<now, calls, sweeper, lookupVars>>

\* cleanup_expired(max_age_seconds): the write guard is granted, then the
\* cutoff, both retains, and the guard is dropped.
\* The caller panics at line 44 when the cutoff is no Instant: the guard is
\* dropped by the unwinding, the store is as it was, and the task is gone.
Cleanup(max_age_seconds) ==
    /\ sweeper = "running"
    /\ lock_free
    /\ IF instant_sub_panics(now, from_secs(max_age_seconds))
       THEN /\ sweeper' = "panicked"
            /\ swept' = NotSwept
            /\ UNCHANGED cooldowns
       ELSE /\ cooldowns' = cleanup_expired(cooldowns, max_age_seconds, now)
            /\ swept' = max_age_seconds
            /\ UNCHANGED sweeper
    /\ UNCHANGED <<now, lock, pc, args, ret, shadow, calls, lookupVars>>

\* main: interval.tick().await completes and cleanup_expired(3600) runs.
Sweep == Cleanup(Retention)

Handler ==
    \/ \E t \in Tasks, k \in Invocations, w \in Windows : Call(t, k[1], k[2], w)
    \/ \E t \in Tasks : Check(t)
    \/ \E t \in Tasks : Record(t)

\* The bot: handlers and the background sweep of main.
Next ==
    \/ Advance
    \/ Handler
    \/ Sweep

Spec == Init /\ [][Next]_vars

\* The manager's interface: check_cooldown and cleanup_expired with any argument.
NextApi ==
    \/ Advance
    \/ Handler
    \/ \E m \in MaxAges : Cleanup(m)

SpecApi == Init /\ [][NextApi]_vars

(****************************** timed bot **********************************)
\* The clock moves on, but not past a tick of the interval: the cleanup
\* task is woken at the tick and, while it runs, sweeps before time goes on.
AdvanceTimed ==
    /\ is_tick(now) /\ sweeper = "running" => swept = Retention
    /\ \E t \in TimedInstants : t > now /\ t <= next_tick(now) /\ now' = t
    /\ swept' = NotSwept
    /\ UNCHANGED <<cooldowns, lock, pc, args, ret, shadow, calls, sweeper, lookupVars>>

\* loop { interval.tick().await; cleanup_expired(3600).await; }
SweepAtTick ==
    /\ is_tick(now)
    /\ Sweep

HandlerTimed ==
    \/ \E t \in Tasks, k \in Invocations, w \in TimedWindows :
          calls < MaxTimedCalls /\ Call(t, k[1], k[2], w)
    \/ \E t \in Tasks : Check(t)
    \/ \E t \in Tasks : Record(t)

\* The bot with the sweep on its schedule.
NextTimed ==
    \/ AdvanceTimed
    \/ HandlerTimed
    \/ SweepAtTick

SpecTimed == Init /\ [][NextTimed]_vars

(*************************** lookup handlers *******************************)
cooldownFrame == <<cooldowns, lock, args, ret, shadow, calls, sweeper>>

\* Where a handler that needs the data goes: fetch_cve_info, fetch_jep_info,
\* get_user_info and get_repository_info build a client and send() the
\* request, no guard held; get_cached_instructions calls load_instructions.
to_fetch(r) ==
    [at |-> IF r.source \in Remote THEN "awaiting" ELSE "load",
     req |-> [r EXCEPT !.fetches = @ + 1]]

\* A lookup handler is past check_cooldown and defer: cve, jep and opcode go
\* to their cache, github goes to the network.
Begin(t, source, key) ==
    LET r == [NoReq EXCEPT !.command = command_of(source), !.cooled = TRUE,
                           !.source = source, !.key = key]
    IN  /\ pc[t] = "idle"
        /\ lookups < MaxLookups
        /\ lookups' = lookups + 1
        /\ IF source \in CacheNames
           THEN /\ pc' = [pc EXCEPT ![t] = "lookup"]
                /\ req' = [req EXCEPT ![t] = r]
           ELSE /\ pc' = [pc EXCEPT ![t] = to_fetch(r).at]
                /\ req' = [req EXCEPT ![t] = to_fetch(r).req]
        /\ swept' = NotSwept
        /\ UNCHANGED <<now, caches, upstream, hret, guards, cooldownFrame>>

\* The handler returns r to its caller.
Finish(t, r) ==
    /\ hret' = r
    /\ pc' = [pc EXCEPT ![t] = "idle"]
    /\ req' = [req EXCEPT ![t] = NoReq]

\* CVE_CACHE.read().await (and the like) is granted.
ReadLock(t) ==
    LET c == req[t].source
    IN  /\ pc[t] = "lookup"
        /\ can_read(guards[c])
        /\ guards' = [guards EXCEPT ![c].readers = @ \cup {t}]
        /\ pc' = [pc EXCEPT ![t] = "reading"]
        /\ swept' = NotSwept
        /\ UNCHANGED <<now, caches, upstream, req, hret, lookups, cooldownFrame>>

\* get_cached_*: the body under the read guard; Some(data) is sent, None
\* goes on to the fetch routine with the guard given back.
Lookup(t) ==
    LET r == req[t]
        c == r.source
        found == get_cached(caches[c], r.key, now)
    IN  /\ pc[t] = "reading"
        /\ caches' = [caches EXCEPT ![c] = after_read(caches[c], r.key, now)]
        /\ IF found # {}
           THEN /\ Finish(t, Responded(r, "Ok", CHOOSE d \in found : TRUE, "hit"))
                /\ guards' = [guards EXCEPT ![c] = release_on_return(@, t)]
           ELSE /\ pc' = [pc EXCEPT ![t] = to_fetch(r).at]
                /\ req' = [req EXCEPT ![t] = to_fetch(r).req]
                /\ guards' = [guards EXCEPT ![c] =
                                 IF c = "opcode" THEN drop_before_load(@, t)
                                 ELSE release_on_return(@, t)]
                /\ UNCHANGED hret
        /\ swept' = NotSwept
        /\ UNCHANGED <<now, upstream, lookups, cooldownFrame>>

\* What the handler does with the Result of its fetch routine: Err leaves
\* by ?, Ok goes to cache_* in cve and jep and to the reply in github.
Fetched(t, outcome, result) ==
    LET r == req[t]
    IN  IF ~result.ok
        THEN Finish(t, Responded(r, "Err", NotFound, outcome))
        ELSE IF r.source \in CacheNames
        THEN /\ pc' = [pc EXCEPT ![t] = "store"]
             /\ req' = [req EXCEPT ![t] =
                            [r EXCEPT !.value = result.value, !.outcome = outcome]]
             /\ UNCHANGED hret
        ELSE Finish(t, Responded(r, "Ok", result.value, outcome))

\* The upstream answers, or the connection fails.
Answer(t, outcome) ==
    /\ pc[t] = "awaiting"
    /\ outcome \in Outcomes(req[t].source)
    /\ Fetched(t, outcome, fetch_result(req[t].source, outcome, upstream))
    /\ swept' = NotSwept
    /\ UNCHANGED <<now, caches, upstream, lookups, guards, cooldownFrame>>

\* The client's timeout ends the wait: send() gives Err.
Timeout(t) ==
    /\ pc[t] = "awaiting"
    /\ client_timeout(req[t].source) # NoTimeout
    /\ Fetched(t, "timeout", [ok |-> FALSE, value |-> NotFound])
    /\ swept' = NotSwept
    /\ UNCHANGED <<now, caches, upstream, lookups, guards, cooldownFrame>>

\* load_instructions(): serde_json::from_str of the built-in table.
Load(t, outcome) ==
    /\ pc[t] = "load"
    /\ outcome \in Outcomes("opcode")
    /\ LET r == req[t]
           result == fetch_result("opcode", outcome, JSON_DATA)
       IN  IF result.ok
           THEN /\ pc' = [pc EXCEPT ![t] = "store"]
                /\ req' = [req EXCEPT ![t] =
                               [r EXCEPT !.value = result.value, !.outcome = outcome]]
                /\ UNCHANGED hret
           ELSE Finish(t, Responded(r, "Err", NotFound, outcome))
    /\ swept' = NotSwept
    /\ UNCHANGED <<now, caches, upstream, lookups, guards, cooldownFrame>>

\* CVE_CACHE.write().await (and the like) is granted.
WriteLock(t) ==
    LET c == req[t].source
    IN  /\ pc[t] = "store"
        /\ can_write(guards[c])
        /\ guards' = [guards EXCEPT ![c].writer = t]
        /\ pc' = [pc EXCEPT ![t] = "writing"]
        /\ swept' = NotSwept
        /\ UNCHANGED <<now, caches, upstream, req, hret, lookups, cooldownFrame>>

\* cache_cve, cache_jep and the write half of get_cached_instructions: the
\* body under the write guard; the handler then sends what it fetched.
Store(t) ==
    LET r == req[t]
        c == r.source
        stored == cache_put(c, caches[c], r.key, r.value, now)
    IN  /\ pc[t] = "writing"
        /\ caches' = [caches EXCEPT ![c] = stored]
        /\ guards' = [guards EXCEPT ![c].writer = NoTask]
        /\ Finish(t, [Responded(r, "Ok", r.value, r.outcome)
                         EXCEPT !.displaced = Displaced(caches[c], stored)])
        /\ swept' = NotSwept
        /\ UNCHANGED <<now, upstream, lookups, cooldownFrame>>

\* The external source changes what it serves.
Publish ==
    /\ upstream < MaxVersions
    /\ upstream' = upstream + 1
    /\ swept' = NotSwept
    /\ UNCHANGED <<now, pc, caches, req, hret, lookups, guards, cooldownFrame>>

LookupHandler ==
    \/ \E t \in Tasks, k \in Lookups : Begin(t, k[1], k[2])
    \/ \E t \in Tasks : ReadLock(t)
    \/ \E t \in Tasks : Lookup(t)
    \/ \E t \in Tasks, o \in Outcomes("cve") \cup Outcomes("github_user") : Answer(t, o)
    \/ \E t \in Tasks : Timeout(t)
    \/ \E t \in Tasks, o \in Outcomes("opcode") : Load(t, o)
    \/ \E t \in Tasks : WriteLock(t)
    \/ \E t \in Tasks : Store(t)

\* The lookup commands: handlers, the clock and the external sources.
NextLookup ==
    \/ Advance
    \/ LookupHandler
    \/ Publish

SpecLookup == Init /\ [][NextLookup]_vars

\* The runtime keeps polling a task that can go on, and tokio's RwLock
\* serves its waiters in the order they came: a task waiting for a guard
\* gets it, and a task holding one runs its body.
LookupFairness ==
    \A t \in Tasks :
        /\ SF_vars(ReadLock(t))
        /\ WF_vars(Lookup(t))
        /\ SF_vars(WriteLock(t))
        /\ WF_vars(Store(t))

SpecLookupFair == SpecLookup /\ LookupFairness

(****************************** whole bot **********************************)
\* The handler's code from where it has the Result of check_cooldown (or
\* from its entry, when it does not ask) to its next await: the size check,
\* normalize_cve_id, and then the cache, the network or the reply.
handler_body(r) ==
    IF r.command \in Validating /\ r.input = "too_large"
    THEN [at |-> "reply", req |-> [r EXCEPT !.outcome = "too_large"]]
    ELSE IF r.command = "cve" /\ r.input = "invalid"
    THEN [at |-> "failed", req |-> [r EXCEPT !.outcome = "invalid"]]
    ELSE IF r.source \in CacheNames
    THEN [at |-> "lookup", req |-> r]
    ELSE IF r.source \in Remote
    THEN to_fetch(r)
    ELSE [at |-> "reply", req |-> r]

\* The first thing a handler does: check_cooldown where the body has it.
handler_entry(r) ==
    IF r.command \in Cooled
    THEN [at |-> "invoked", req |-> r]
    ELSE handler_body(r)

\* poise dispatches a registered command to its handler on a task.
Invoke(t, command, user, input, target) ==
    LET r == [NoReq EXCEPT !.command = command, !.user = user, !.input = input,
                           !.source = target[1], !.key = target[2]]
    IN  /\ pc[t] = "idle"
        /\ lookups < MaxInvokes
        /\ lookups' = lookups + 1
        /\ pc' = [pc EXCEPT ![t] = handler_entry(r).at]
        /\ req' = [req EXCEPT ![t] = handler_entry(r).req]
        /\ swept' = NotSwept
        /\ UNCHANGED <<now, caches, upstream, hret, guards, cooldownFrame>>

\* util::command::check_cooldown from the handler: the manager is called
\* with the handler's name, the author's id and the configured cooldown,
\* and its write guard is granted.
CallFromHandler(t) ==
    /\ pc[t] = "invoked"
    /\ lock_free
    /\ calls' = calls + 1
    /\ lock' = t
    /\ pc' = [pc EXCEPT ![t] = "locked"]
    /\ args' = [args EXCEPT ![t] = [command |-> req[t].command,
                                    user_id |-> req[t].user,
                                    cooldown_seconds |-> cooldown_of(req[t].command)]]
    /\ swept' = NotSwept
    /\ UNCHANGED <<now, cooldowns, ret, shadow, sweeper, lookupVars>>

\* Err(BotError::Cooldown) leaves the handler by ?.
Throttled(t) ==
    /\ pc[t] = "throttled"
    /\ Finish(t, Responded(req[t], "Err", NotFound, "cooldown"))
    /\ swept' = NotSwept
    /\ UNCHANGED <<now, caches, upstream, lookups, guards, cooldownFrame>>

\* check_cooldown returned Ok: the handler goes on with its body.
Proceed(t) ==
    LET r == [req[t] EXCEPT !.cooled = TRUE]
    IN  /\ pc[t] = "cooled"
        /\ IF handler_body(r).at = "failed"
           THEN Finish(t, Responded(r, "Err", NotFound, handler_body(r).req.outcome))
           ELSE /\ pc' = [pc EXCEPT ![t] = handler_body(r).at]
                /\ req' = [req EXCEPT ![t] = handler_body(r).req]
                /\ UNCHANGED hret
        /\ swept' = NotSwept
        /\ UNCHANGED <<now, caches, upstream, lookups, guards, cooldownFrame>>

\* ctx.send(..).await? and Ok(()): the reply is delivered or the send fails.
Reply(t, delivered) ==
    LET r == req[t]
    IN  /\ pc[t] = "reply"
        /\ Finish(t, IF delivered THEN Responded(r, "Ok", NotFound, r.outcome)
                     ELSE Responded(r, "Err", NotFound, "send"))
        /\ swept' = NotSwept
        /\ UNCHANGED <<now, caches, upstream, lookups, guards, cooldownFrame>>

BotHandler ==
    \/ \E t \in Tasks, c \in Registered, u \in BotUsers :
          \E i \in Inputs(c), k \in Targets(c) : Invoke(t, c, u, i, k)
    \/ \E t \in Tasks : CallFromHandler(t)
    \/ \E t \in Tasks : Check(t)
    \/ \E t \in Tasks : Record(t)
    \/ \E t \in Tasks : Throttled(t)
    \/ \E t \in Tasks : Proceed(t)
    \/ \E t \in Tasks, d \in BOOLEAN : Reply(t, d)
    \/ \E t \in Tasks : ReadLock(t)
    \/ \E t \in Tasks : Lookup(t)
    \/ \E t \in Tasks, o \in Outcomes("cve") \cup Outcomes("github_user") : Answer(t, o)
    \/ \E t \in Tasks : Timeout(t)
    \/ \E t \in Tasks, o \in Outcomes("opcode") : Load(t, o)
    \/ \E t \in Tasks : WriteLock(t)
    \/ \E t \in Tasks : Store(t)

\* The whole bot: every registered command, the clock and the sweep.
NextBot ==
    \/ Advance
    \/ BotHandler
    \/ Sweep

SpecBot == Init /\ [][NextBot]_vars

(***************************************************************************)
(* Properties.  They read the store through Present and Stamp and measure  *)
(* windows with Ticks, none of which the actions use.                      *)
(***************************************************************************)
Present(store, c, u) == c \in DOMAIN store /\ u \in DOMAIN store[c]
Stamp(store, c, u) == store[c][u]
Ticks(secs) == secs * TicksPerSec
Keys == Commands \X Users

\* The steps of a task t, told by its position before and after.
ChecksNow(t) == pc[t] = "locked" /\ pc'[t] # "locked"
IsThrottledNow(t) == pc[t] = "locked" /\ pc'[t] = "idle"
PassesNow(t) == pc[t] = "locked" /\ pc'[t] = "passed"
RecordsNow(t) == pc[t] = "passed" /\ pc'[t] = "idle"

\* The stored entry of t's key is younger than t's window.
InsideWindow(t) ==
    /\ Present(cooldowns, args[t].command, args[t].user_id)
    /\ now - Stamp(cooldowns, args[t].command, args[t].user_id)
           < Ticks(args[t].cooldown_seconds)

\* C1: with a window > 0, a call that finds its key's stored timestamp less
\* than the window old returns the Cooldown error, for its own arguments.
C1_ThrottledInsideWindow ==
    [][\A t \in Tasks :
         (ChecksNow(t) /\ args[t].cooldown_seconds > 0 /\ InsideWindow(t))
         => /\ pc'[t] = "idle"
            /\ ret'.status = "Cooldown"
            /\ ret'.command = args[t].command
            /\ ret'.user_id = args[t].user_id
            /\ ret'.cooldown_seconds = args[t].cooldown_seconds]_vars

\* A call returned Cooldown on a key whose entry is still inside a window of
\* more than a second's fraction: 0 < age < window.
C1_Witness ==
    /\ ret.status = "Cooldown"
    /\ ret.cooldown_seconds > 0
    /\ Present(cooldowns, ret.command, ret.user_id)
    /\ now > Stamp(cooldowns, ret.command, ret.user_id)
    /\ now - Stamp(cooldowns, ret.command, ret.user_id) < Ticks(ret.cooldown_seconds)

\* C2: a call that finds no entry for its key, or one at least the window old
\* (exactly the window included), passes the check, and when it returns it
\* returns Ok and the key's stored timestamp is the current time.
C2_AllowedAndRecorded ==
    [][\A t \in Tasks :
         /\ (ChecksNow(t) /\ ~InsideWindow(t)) => pc'[t] = "passed"
         /\ RecordsNow(t)
            => /\ ret'.status = "Ok"
               /\ ret'.command = args[t].command
               /\ ret'.user_id = args[t].user_id
               /\ Present(cooldowns', args[t].command, args[t].user_id)
               /\ Stamp(cooldowns', args[t].command, args[t].user_id) = now]_vars

\* A call has passed the check on an entry that is exactly one window old.
C2_Witness ==
    \E t \in Tasks :
        /\ pc[t] = "passed"
        /\ args[t].cooldown_seconds > 0
        /\ Present(cooldowns, args[t].command, args[t].user_id)
        /\ now - Stamp(cooldowns, args[t].command, args[t].user_id)
               = Ticks(args[t].cooldown_seconds)

\* C3: a call that returns Cooldown leaves the whole store as it was: the
\* throttled key's timestamp, every other entry, and the set of entries.
C3_ThrottledLeavesStore ==
    [][\A t \in Tasks : IsThrottledNow(t) => cooldowns' = cooldowns]_vars

\* A call returned Cooldown while the store held entries of several keys.
C3_Witness ==
    /\ ret.status = "Cooldown"
    /\ Cardinality({k \in Keys : Present(cooldowns, k[1], k[2])}) >= 2
    /\ Present(cooldowns, ret.command, ret.user_id)
    /\ Stamp(cooldowns, ret.command, ret.user_id) < now

\* A task is inside the check-then-record sequence.
InCritical(t) == pc[t] \in {"locked", "passed"}
SameKey(t1, t2) ==
    /\ args[t1].command = args[t2].command
    /\ args[t1].user_id = args[t2].user_id

\* C4: check-then-record is atomic per key: no two callers on one key are
\* inside the sequence together, and a caller that has passed the check and
\* not yet recorded still finds its key absent or at least a window old, so
\* no other caller has recorded in between.
C4_CheckThenRecordAtomic ==
    /\ \A t1, t2 \in Tasks :
           (t1 # t2 /\ InCritical(t1) /\ InCritical(t2)) => ~SameKey(t1, t2)
    /\ \A t \in Tasks : pc[t] = "passed" => ~InsideWindow(t)

\* One caller is between its check and its record, on a key that has an
\* entry, while another caller that could still invoke is kept out.
C4_Witness ==
    \E t1, t2 \in Tasks :
        /\ t1 # t2
        /\ pc[t1] = "passed"
        /\ args[t1].cooldown_seconds > 0
        /\ Present(cooldowns, args[t1].command, args[t1].user_id)
        /\ pc[t2] = "idle"
        /\ calls < MaxCalls
        /\ ~ENABLED Call(t2, args[t1].command, args[t1].user_id,
                         args[t1].cooldown_seconds)

\* C5: with handlers and the sweep of main interleaved, a successful call
\* with window w, 0 < w <= 3600, records a timestamp at least w after the
\* timestamp of the key's previous successful call.  shadow holds, per key,
\* the latest recorded timestamp; recorded timestamps never decrease, so
\* every earlier success of the key, of any window, is at least as far back.
C5_SuccessesAWindowApart ==
    [][\A t \in Tasks :
         (/\ RecordsNow(t)
          /\ args[t].cooldown_seconds > 0
          /\ args[t].cooldown_seconds <= Retention
          /\ Present(shadow, args[t].command, args[t].user_id))
         => now - Stamp(shadow, args[t].command, args[t].user_id)
                >= Ticks(args[t].cooldown_seconds)]_vars

\* A second success on a key whose first entry the sweep has removed: the
\* call has passed the check with a window of the whole retention horizon.
C5_Witness ==
    \E t \in Tasks :
        /\ pc[t] = "passed"
        /\ args[t].cooldown_seconds = Retention
        /\ Present(shadow, args[t].command, args[t].user_id)
        /\ ~Present(cooldowns, args[t].command, args[t].user_id)

\* C6: a call is throttled only by a young entry of its own key, and a
\* successful call changes the entry of its own key alone.
C6_KeysIndependent ==
    [][\A t \in Tasks :
         /\ IsThrottledNow(t) => InsideWindow(t)
         /\ RecordsNow(t)
            => \A k \in Keys :
                   (k # <<args[t].command, args[t].user_id>>)
                   => /\ Present(cooldowns', k[1], k[2]) = Present(cooldowns, k[1], k[2])
                      /\ Present(cooldowns, k[1], k[2])
                         => Stamp(cooldowns', k[1], k[2]) = Stamp(cooldowns, k[1], k[2])]_vars

\* A call with a window > 0 returned Ok while the same user's entry under
\* another command and another user's entry under the same command were both
\* younger than that window, and both are still stamped before the call.
C6_Witness ==
    /\ ret.status = "Ok"
    /\ ret.cooldown_seconds > 0
    /\ Present(cooldowns, ret.command, ret.user_id)
    /\ \E c \in Commands \ {ret.command}, u \in Users \ {ret.user_id} :
        /\ Present(cooldowns, c, ret.user_id)
        /\ Present(cooldowns, ret.command, u)
        /\ Stamp(cooldowns, c, ret.user_id) < Stamp(cooldowns, ret.command, ret.user_id)
        /\ Stamp(cooldowns, ret.command, u) < Stamp(cooldowns, ret.command, ret.user_id)
        /\ now - Stamp(cooldowns, c, ret.user_id) < Ticks(ret.cooldown_seconds)
        /\ now - Stamp(cooldowns, ret.command, u) < Ticks(ret.cooldown_seconds)

\* C7: with cooldown_seconds = 0 no call is throttled: every check passes,
\* whatever the key's stored timestamp, and the call returns Ok.
C7_ZeroWindowNeverThrottles ==
    [][\A t \in Tasks :
         /\ (ChecksNow(t) /\ args[t].cooldown_seconds = 0) => PassesNow(t)
         /\ (RecordsNow(t) /\ args[t].cooldown_seconds = 0) => ret'.status = "Ok"
         /\ (ret'.status = "Cooldown" /\ ret' # ret) => ret'.cooldown_seconds > 0]_vars

\* A call with window 0 has passed the check on an entry recorded at this
\* very instant.
C7_Witness ==
    \E t \in Tasks :
        /\ pc[t] = "passed"
        /\ args[t].cooldown_seconds = 0
        /\ Present(cooldowns, args[t].command, args[t].user_id)
        /\ Stamp(cooldowns, args[t].command, args[t].user_id) = now

\* C8: the seconds carried by a Cooldown error are the window less the time
\* elapsed since the stored timestamp, with the fraction of a second dropped.
C8_RemainingSeconds ==
    [][\A t \in Tasks :
         IsThrottledNow(t)
         => ret'.secs =
                (Ticks(args[t].cooldown_seconds)
                 - (now - Stamp(cooldowns, args[t].command, args[t].user_id)))
                \div TicksPerSec]_vars

\* A Cooldown error whose seconds are less than the time that really remains:
\* a fraction was dropped.
C8_Witness ==
    /\ ret.status = "Cooldown"
    /\ Present(cooldowns, ret.command, ret.user_id)
    /\ ret.secs * TicksPerSec
           < Ticks(ret.cooldown_seconds)
             - (now - Stamp(cooldowns, ret.command, ret.user_id))

\* C9: cleanup_expired(max_age_seconds) removes every entry older than
\* max_age_seconds, keeps every entry younger than that with its timestamp,
\* and adds none.
C9_CleanupByAge ==
    [][(swept' # NotSwept)
       => \A k \in Keys :
            /\ Present(cooldowns', k[1], k[2]) => Present(cooldowns, k[1], k[2])
            /\ Present(cooldowns, k[1], k[2])
               => /\ (now - Stamp(cooldowns, k[1], k[2]) > Ticks(swept'))
                     => ~Present(cooldowns', k[1], k[2])
                  /\ (now - Stamp(cooldowns, k[1], k[2]) < Ticks(swept'))
                     => /\ Present(cooldowns', k[1], k[2])
                        /\ Stamp(cooldowns', k[1], k[2]) = Stamp(cooldowns, k[1], k[2])]_vars

\* Right after a cleanup: an older entry is gone and a younger one, recorded
\* before the cleanup, is still there.
C9_Witness ==
    /\ swept # NotSwept
    /\ \E k1, k2 \in Keys :
        /\ Present(shadow, k1[1], k1[2])
        /\ ~Present(cooldowns, k1[1], k1[2])
        /\ now - Stamp(shadow, k1[1], k1[2]) > Ticks(swept)
        /\ Present(cooldowns, k2[1], k2[2])
        /\ Stamp(cooldowns, k2[1], k2[2]) < now
        /\ now - Stamp(cooldowns, k2[1], k2[2]) < Ticks(swept)

\* C10: a call gets the same verdict from the swept store as from the store
\* that was never swept.  Up to the first call where the verdicts differ, the
\* never-swept store is shadow: the same calls recorded the same timestamps.
C10_SweepNeverChangesVerdict ==
    \A t \in Tasks :
        pc[t] = "locked"
        => (InsideWindow(t)
            <=> /\ Present(shadow, args[t].command, args[t].user_id)
                /\ now - Stamp(shadow, args[t].command, args[t].user_id)
                       < Ticks(args[t].cooldown_seconds))

\* What a step of cleanup_expired looks like from outside: it is the only
\* one that sets swept or stops the cleanup task.
CleansNow == swept' # NotSwept \/ sweeper' # sweeper

Cached(c, k) == k \in DOMAIN caches[c]
EntryOf(c, k) == caches[c][k]
AgeOf(c, k) == now - caches[c][k].cached_at
WithinTTL(c, k) == Cached(c, k) /\ AgeOf(c, k) < Ticks(CACHE_DURATION)
CachedLookups == {k \in Lookups : k[1] \in CacheNames}
Failures == {"network", "status", "parse", "empty", "timeout"}

\* Task t reads its cache, leaves its fetch routine, stores, returns.
LooksUpNow(t) == pc[t] = "reading" /\ pc'[t] # "reading"
FetchEndsNow(t) == pc[t] \in {"awaiting", "load"} /\ pc'[t] # pc[t]
StoresNow(t) == pc[t] = "writing" /\ pc'[t] # "writing"
ReturnsNow(t) == pc[t] # "idle" /\ pc'[t] = "idle"
FetchStarted(t) == pc'[t] \in {"awaiting", "load"}
FetchStartedAt(t) == pc[t] \in {"awaiting", "load"}
Others(t) == Tasks \ {t}

\* C13: a lookup that finds an entry of its key younger than the TTL returns
\* the stored value, invokes no fetch and leaves the cache as it was.
C13_HitServesStoredValue ==
    [][\A t \in Tasks :
          LooksUpNow(t) /\ WithinTTL(req[t].source, req[t].key) =>
              /\ ReturnsNow(t)
              /\ hret'.source = req[t].source /\ hret'.key = req[t].key
              /\ hret'.status = "Ok"
              /\ hret'.value = EntryOf(req[t].source, req[t].key).data
              /\ hret'.fetches = 0
              /\ caches' = caches]_vars

\* A handler was served from an entry one tick short of the TTL, after the
\* source had moved on to another version.
C13_Witness ==
    /\ hret.status = "Ok" /\ hret.fetches = 0
    /\ Cached(hret.source, hret.key)
    /\ AgeOf(hret.source, hret.key) = Ticks(CACHE_DURATION) - 1
    /\ hret.value # upstream

\* C14: sequential calls on a cold key: the first invocation fetches once,
\* stores what it fetched under the current timestamp and returns it; the
\* cache then holds the returned value, and the next lookup of the key with
\* the TTL not elapsed returns the same value with no fetch.
C14_ColdKeyFetchedOnceThenServed ==
    [][\A t \in Tasks :
          /\ StoresNow(t) =>
                /\ ReturnsNow(t)
                /\ hret'.status = "Ok" /\ hret'.fetches = 1
                /\ hret'.value = req[t].value
                /\ req[t].key \in DOMAIN caches'[req[t].source]
                /\ caches'[req[t].source][req[t].key] =
                       [data |-> hret'.value, cached_at |-> now]
          /\ /\ LooksUpNow(t)
             /\ \A o \in Others(t) : pc[o] = "idle"
             /\ hret.status = "Ok" /\ hret.fetches = 1
             /\ hret.source = req[t].source /\ hret.key = req[t].key
             /\ hret.source \in CacheNames
             => /\ Cached(hret.source, hret.key)
                /\ EntryOf(hret.source, hret.key).data = hret.value
                /\ AgeOf(hret.source, hret.key) < Ticks(CACHE_DURATION) =>
                      /\ ReturnsNow(t)
                      /\ hret'.status = "Ok"
                      /\ hret'.value = hret.value
                      /\ hret'.fetches = 0]_vars

\* The second of two invocations on one key, alone, was served without a
\* fetch from what the first had stored later than start-up.
C14_Witness ==
    /\ lookups = 2
    /\ \A t \in Tasks : pc[t] = "idle"
    /\ hret.status = "Ok" /\ hret.fetches = 0
    /\ Cached(hret.source, hret.key)
    /\ EntryOf(hret.source, hret.key).cached_at > 0
    /\ \A k \in CachedLookups :
          Cached(k[1], k[2]) => k = <<hret.source, hret.key>>

\* C15: an entry is served only while its age is below the TTL; a lookup at
\* age TTL or more, exactly TTL included, goes to fetch, and the value then
\* stored replaces the old entry and is the one returned.
C15_ExpiryAtTTL ==
    [][\A t \in Tasks :
          /\ LooksUpNow(t) /\ ReturnsNow(t) =>
                WithinTTL(req[t].source, req[t].key)
          /\ /\ LooksUpNow(t)
             /\ Cached(req[t].source, req[t].key)
             /\ AgeOf(req[t].source, req[t].key) >= Ticks(CACHE_DURATION)
             => /\ FetchStarted(t)
                /\ hret' = hret
          /\ StoresNow(t) /\ Cached(req[t].source, req[t].key) =>
                /\ caches'[req[t].source][req[t].key].data = req[t].value
                /\ caches'[req[t].source][req[t].key].cached_at = now
                /\ hret'.value = req[t].value]_vars

\* The entry stored at start-up is exactly TTL old, the source serves a new
\* version, and the one invocation made since is at its fetch.
C15_Witness ==
    /\ lookups = 2
    /\ upstream = 2
    /\ now = Ticks(CACHE_DURATION)
    /\ \E t \in Tasks :
          /\ \A o \in Others(t) : pc[o] = "idle"
          /\ FetchStartedAt(t)
          /\ req[t].source \in CacheNames
          /\ Cached(req[t].source, req[t].key)
          /\ hret.source = req[t].source /\ hret.key = req[t].key
          /\ hret.status = "Ok" /\ hret.fetches = 1
          /\ EntryOf(req[t].source, req[t].key) = [data |-> 1, cached_at |-> 0]

\* C16: a fetch that fails (network error, timeout, status, empty result,
\* parse failure) never reaches the store: the handler returns the error,
\* the cache is as it was, and a later lookup that finds no valid entry of
\* the key fetches again.
C16_NoNegativeCaching ==
    [][\A t \in Tasks :
          /\ pc[t] \in {"store", "writing"} => req[t].outcome = "ok"
          /\ FetchEndsNow(t) /\ req[t].source \in CacheNames =>
                \/ pc'[t] = "store" /\ req'[t].outcome = "ok" /\ caches' = caches
                \/ /\ ReturnsNow(t)
                   /\ hret'.status = "Err"
                   /\ hret'.outcome \in Failures
                   /\ hret'.source = req[t].source /\ hret'.key = req[t].key
                   /\ caches' = caches
          /\ /\ LooksUpNow(t)
             /\ hret.status = "Err"
             /\ hret.source = req[t].source /\ hret.key = req[t].key
             /\ ~WithinTTL(req[t].source, req[t].key)
             => FetchStarted(t) /\ req'[t].fetches = 1]_vars

\* A fetch for a key has failed, nothing is cached under the key, and the
\* next invocation for that key is at its own fetch.
C16_Witness ==
    /\ hret.status = "Err"
    /\ hret.source \in CacheNames
    /\ ~Cached(hret.source, hret.key)
    /\ \E t \in Tasks :
          /\ FetchStartedAt(t)
          /\ req[t].source = hret.source /\ req[t].key = hret.key
          /\ \A o \in Others(t) : pc[o] = "idle"

\* C17 as it stands: in every interleaving, every invocation for a key that
\* completes while a stored entry of the key is within its TTL returns the
\* value of that entry.
C17_StableInEveryInterleaving ==
    [][\A t \in Tasks :
          /\ ReturnsNow(t)
          /\ hret'.status = "Ok"
          /\ req[t].source \in CacheNames
          /\ WithinTTL(req[t].source, req[t].key)
          => hret'.value = EntryOf(req[t].source, req[t].key).data]_vars

\* C17, amended: an invocation whose lookup reads the cache while an entry of
\* its key is within the TTL returns that entry's value, whatever the source
\* serves by then; and an entry within its TTL changes only by the store of
\* an invocation for the same key, one whose own lookup had missed.
C17_StableBetweenStores ==
    [][/\ \A t \in Tasks :
             LooksUpNow(t) /\ WithinTTL(req[t].source, req[t].key) =>
                 /\ hret'.status = "Ok"
                 /\ hret'.value = EntryOf(req[t].source, req[t].key).data
       /\ \A k \in CachedLookups :
             /\ WithinTTL(k[1], k[2])
             /\ \/ k[2] \notin DOMAIN caches'[k[1]]
                \/ caches'[k[1]][k[2]] # EntryOf(k[1], k[2])
             => \E t \in Tasks :
                   /\ StoresNow(t)
                   /\ req[t].source = k[1] /\ req[t].key = k[2]
                   /\ req[t].fetches = 1]_vars

\* An entry within its TTL holds a version the source no longer serves, and
\* the last invocation was served that version without a fetch.
C17_Witness ==
    /\ hret.status = "Ok" /\ hret.fetches = 0
    /\ WithinTTL(hret.source, hret.key)
    /\ EntryOf(hret.source, hret.key).data = hret.value
    /\ hret.value < upstream
    /\ now > EntryOf(hret.source, hret.key).cached_at

\* C18 as it stands: every wait for an external source can be ended by the
\* client's timeout.
C18_EveryFetchBoundedByTimeout ==
    \A t \in Tasks : pc[t] = "awaiting" => ENABLED Timeout(t)

\* C19 as it stands: while one call is inside its check-then-record, a call
\* on another key can be let into its own.
C19_DifferentKeysDoNotBlock ==
    \A t1 \in Tasks, t2 \in Tasks :
        /\ InCritical(t1)
        /\ pc[t2] = "idle"
        /\ calls < MaxCalls
        => \E k \in Invocations :
              /\ k # <<args[t1].command, args[t1].user_id>>
              /\ ENABLED Call(t2, k[1], k[2], 0)

\* C20 as it stands: an invocation fetches at most once, and one whose fetch
\* failed returns an error.
C20_FailedFetchEndsInError ==
    /\ hret.fetches <= 1
    /\ hret.outcome \in Failures => hret.status = "Err"

(***************************************************************************)
(* Properties of the cache writes and of the cache locks.                  *)
(***************************************************************************)
SweptCaches == {"cve", "jep"}
InFlight(t) == pc[t] \in {"awaiting", "load", "store", "writing"}
AtCache(t) == pc[t] \in {"lookup", "reading", "store", "writing"}
Holds(t, c) == guards[c].writer = t \/ t \in guards[c].readers
StaleKeys(c) == {k \in DOMAIN caches[c] : AgeOf(c, k) >= Ticks(CACHE_DURATION)}

\* C22: when cache_cve or cache_jep has stored, every entry of that cache is
\* younger than the TTL: the entry just inserted is there with the current
\* timestamp, every other entry that had reached the TTL is gone, and every
\* other entry below the TTL is as it was.
C22_StoreSweepsExpired ==
    [][\A t \in Tasks :
          StoresNow(t) /\ req[t].source \in SweptCaches =>
              LET c == req[t].source
                  old == caches[c]
                  new == caches'[c]
              IN  /\ \A k \in DOMAIN new : now - new[k].cached_at < Ticks(CACHE_DURATION)
                  /\ req[t].key \in DOMAIN new
                  /\ new[req[t].key].cached_at = now
                  /\ \A k \in DOMAIN old \ {req[t].key} :
                        IF now - old[k].cached_at >= Ticks(CACHE_DURATION)
                        THEN k \notin DOMAIN new
                        ELSE k \in DOMAIN new /\ new[k] = old[k]]_vars

\* The last store took an entry of another key, one TTL old or older, out
\* of its cache.
C22_Witness ==
    /\ hret.status = "Ok"
    /\ hret.source \in SweptCaches
    /\ Cached(hret.source, hret.key)
    /\ \E e \in hret.displaced :
          /\ e.key # hret.key
          /\ EntryOf(hret.source, hret.key).cached_at - e.cached_at
                 >= Ticks(CACHE_DURATION)

\* C23 as it stands: a CVE or JEP cache never holds more than one entry
\* whose age has reached the TTL.
C23_AtMostOneStaleEntry ==
    \A c \in SweptCaches : Cardinality(StaleKeys(c)) <= 1

\* C24: nothing joins concurrent misses: a lookup that misses starts its own
\* fetch also while another invocation is fetching or storing the same key,
\* and a store made while an entry of the key is within its TTL puts its
\* own value and timestamp in place of that entry.
C24_NoSingleFlight ==
    [][\A t \in Tasks :
          /\ /\ LooksUpNow(t)
             /\ ~WithinTTL(req[t].source, req[t].key)
             /\ \E o \in Others(t) :
                   /\ InFlight(o)
                   /\ req[o].source = req[t].source /\ req[o].key = req[t].key
             => FetchStarted(t) /\ req'[t].fetches = 1
          /\ StoresNow(t) /\ WithinTTL(req[t].source, req[t].key) =>
                /\ req[t].fetches = 1
                /\ caches'[req[t].source][req[t].key] =
                       [data |-> req[t].value, cached_at |-> now]]_vars

\* The last store wrote over an entry of its own key that was still within
\* its TTL: two fetches of one key ended in two stores inside one window.
C24_Witness ==
    /\ hret.status = "Ok" /\ hret.fetches = 1
    /\ hret.source \in CacheNames
    /\ Cached(hret.source, hret.key)
    /\ \E e \in hret.displaced :
          /\ e.key = hret.key
          /\ EntryOf(hret.source, hret.key).cached_at - e.cached_at
                 < Ticks(CACHE_DURATION)

\* C25: no cache operation waits for ever: under fair scheduling every task
\* that waits for a read or write guard of a cache, or holds one, gets
\* through its read or its store.
C25_CacheOperationsComplete ==
    \A t \in Tasks : AtCache(t) ~> ~AtCache(t)

\* A store holds the write guard of a cache while the other task waits for a
\* read guard of the same cache.
C25_Witness ==
    \E t \in Tasks :
        \E o \in Others(t) :
            /\ pc[t] = "writing"
            /\ pc[o] = "lookup"
            /\ req[o].source = req[t].source
            /\ guards[req[t].source].writer = t

\* C29: a task at its fetch holds no guard of any cache: whoever holds a
\* guard is inside the body of a read or of a store on that cache, so next
\* to a fetching task the other one is let in to read and to store.
C29_NoGuardAcrossFetch ==
    /\ \A t \in Tasks, c \in CacheNames :
          Holds(t, c) =>
              /\ req[t].source = c
              /\ pc[t] = IF guards[c].writer = t THEN "writing" ELSE "reading"
    /\ \A t \in Tasks :
          pc[t] \in {"awaiting", "load"} =>
              \A o \in Others(t) :
                  /\ pc[o] = "lookup" => ENABLED ReadLock(o)
                  /\ pc[o] = "store" => ENABLED WriteLock(o)

\* While a task is still waiting for its source, the entry of its key has
\* been stored by the other task, which had missed as well.
C29_Witness ==
    \E t \in Tasks :
        /\ pc[t] = "awaiting"
        /\ req[t].source \in CacheNames
        /\ WithinTTL(req[t].source, req[t].key)
        /\ hret.status = "Ok" /\ hret.fetches = 1
        /\ hret.source = req[t].source /\ hret.key = req[t].key

\* C30: a read takes nothing out: a lookup leaves every cache as it was,
\* also when it finds an expired entry or none; an expired entry of the CVE
\* or JEP cache goes only by a store into that cache, and every such store
\* removes it or writes over it.
C30_ReadsNeverEvict ==
    [][/\ \A t \in Tasks : LooksUpNow(t) => caches' = caches
       /\ \A c \in SweptCaches :
             \A k \in StaleKeys(c) :
                 /\ \/ k \notin DOMAIN caches'[c]
                    \/ caches'[c][k] # caches[c][k]
                    => \E t \in Tasks : StoresNow(t) /\ req[t].source = c
                 /\ (\E t \in Tasks : StoresNow(t) /\ req[t].source = c) =>
                       \/ k \notin DOMAIN caches'[c]
                       \/ caches'[c][k] # caches[c][k]]_vars

\* A lookup has found an entry older than the TTL, the task is at its
\* fetch, and the entry is still in the cache.
C30_Witness ==
    \E t \in Tasks :
        /\ pc[t] = "awaiting"
        /\ req[t].source \in SweptCaches
        /\ Cached(req[t].source, req[t].key)
        /\ AgeOf(req[t].source, req[t].key) > Ticks(CACHE_DURATION)
        /\ \A o \in Others(t) : pc[o] = "idle"
        /\ lookups = 2

(**************************** handler order ********************************)
CacheCommands == {"cve", "jep", "opcode"}
FreeForm == {"hash", "checksum", "rot", "url"}
Dispatched(t) == pc[t] = "idle" /\ pc'[t] # "idle"
CheckReturnsNow(t) == pc[t] \in {"locked", "passed"} /\ pc'[t] \notin {"locked", "passed"}
\* The user's last pass of the command lies inside the command's cooldown.
RecentlyPassed(c, u) ==
    /\ Present(shadow, c, u)
    /\ now - Stamp(shadow, c, u) < Ticks(cooldown_of(c))

\* C21: a cve, jep or opcode handler starts by calling check_cooldown; when
\* that call returns the Cooldown error the handler returns it with no
\* fetch started and every cache and cache guard as it was; a task is at
\* its cache or in its fetch only in an invocation whose check_cooldown
\* returned Ok; and a fetch for a cached source starts only from a read of
\* the cache that found no valid entry.
C21_HandlerStepOrder ==
    [][\A t \in Tasks :
          /\ Dispatched(t) /\ req'[t].command \in CacheCommands =>
                pc'[t] = "invoked" /\ ~req'[t].cooled /\ req'[t].fetches = 0
          /\ CheckReturnsNow(t) /\ req[t].command \in CacheCommands =>
                /\ caches' = caches /\ guards' = guards /\ req' = req
                /\ pc'[t] = IF ret'.status = "Ok" THEN "cooled" ELSE "throttled"
          /\ pc[t] = "throttled" /\ pc'[t] # "throttled" =>
                /\ ReturnsNow(t)
                /\ hret'.status = "Err" /\ hret'.outcome = "cooldown"
                /\ hret'.fetches = 0 /\ ~hret'.cooled
                /\ caches' = caches /\ guards' = guards
          /\ ~req[t].cooled /\ req'[t].cooled => pc[t] = "cooled"
          /\ (AtCache(t) \/ InFlight(t)) => req[t].cooled
          /\ req[t].command \in CacheCommands /\ req'[t].fetches > req[t].fetches =>
                /\ pc[t] = "reading"
                /\ get_cached(caches[req[t].source], req[t].key, now) = {}]_vars

\* A cve invocation was throttled and returned the Cooldown error without a
\* fetch, with the cache holding what the invocation before it had stored.
C21_Witness ==
    /\ hret.command = "cve" /\ hret.status = "Err" /\ hret.outcome = "cooldown"
    /\ hret.fetches = 0
    /\ Cached("cve", "CVE-1")
    /\ \A t \in Tasks : pc[t] = "idle"

\* C26: every registered command's handler has had check_cooldown return for
\* its own name and its user before it responds: a response is either the
\* Cooldown error or that of an invocation whose check_cooldown returned Ok.
C26_EveryCommandRateLimited ==
    hret.status # "none" => hret.cooled \/ hret.outcome = "cooldown"

\* C27: a hash, checksum, rot or url invocation that is rejected for the size
\* of its input has not passed check_cooldown, and so has recorded no
\* timestamp for its user.
C27_SizeRejectionRecordsNothing ==
    hret.command \in FreeForm /\ hret.outcome = "too_large" => ~hret.cooled

\* C28: a handler that fails after its check_cooldown returned Ok leaves
\* the cooldown store as it is, with the user's timestamp in it unless the
\* retention has run out; no step but the sweep takes a timestamp out or
\* moves it back; and a check_cooldown of a user whose last pass of the
\* command lies inside the command's cooldown is throttled.
C28_RecordedTimestampStays ==
    [][/\ \A t \in Tasks :
            /\ ReturnsNow(t) /\ hret'.status = "Err" /\ hret'.cooled =>
                  /\ cooldowns' = cooldowns
                  /\ Present(shadow, hret'.command, hret'.user)
                  /\ \/ /\ Present(cooldowns, hret'.command, hret'.user)
                        /\ Stamp(cooldowns, hret'.command, hret'.user)
                               = Stamp(shadow, hret'.command, hret'.user)
                     \/ now - Stamp(shadow, hret'.command, hret'.user)
                            >= Ticks(Retention)
            /\ CheckReturnsNow(t) /\ RecentlyPassed(req[t].command, req[t].user) =>
                  pc'[t] = "throttled" /\ ret'.status = "Cooldown"
       /\ \A c \in DOMAIN cooldowns : \A u \in DOMAIN cooldowns[c] :
            \/ Present(cooldowns', c, u) /\ Stamp(cooldowns', c, u) >= Stamp(cooldowns, c, u)
            \/ swept' = Retention]_vars

\* A handler failed after its check_cooldown had returned Ok, and the same
\* user's next invocation of the command was throttled.
C28_Witness ==
    /\ hret.status = "Err" /\ hret.cooled
    /\ \E t \in Tasks :
          /\ pc[t] = "throttled"
          /\ req[t].command = hret.command /\ req[t].user = hret.user
          /\ Present(cooldowns, hret.command, hret.user)

====
